---- MODULE Spec2Model ----
(***************************************************************************)
(* A model of the mcpdb / mc_postgres_db data-access layer:                *)
(*   - the schema registry (mc_postgres_db/models.py),                     *)
(*   - the write path set_data (mcpdb/utils.py) against a PostgreSQL       *)
(*     engine reached through pandas' DataFrame.to_sql,                    *)
(*   - the in-memory MockDatabase (mcpdb/testing/mocks.py),                *)
(*   - the test harness postgres_test_harness                              *)
(*     (mc_postgres_db/testing/utilities.py).                              *)
(* A run uses one backend: the real engine, or the mock that the           *)
(* mock_database fixture patches in place of set_data.                     *)
(***************************************************************************)
EXTENDS Integers, Sequences, FiniteSets, TLC

VARIABLES
    backend,    \* "engine": set_data reaches the database; "mock": the fixture patched it
    db,         \* the engine's tables
    base,       \* TRUE when the rows of create_base_data (asset, provider, ...) are stored
    tables,     \* MockDatabase.tables
    data,       \* the DataFrame the caller holds and passes to set_data
    call,       \* the last call made and how it ended
    prev,       \* the store (db or tables) as it was when the last call began
    now,        \* the engine's clock, the value func.now() takes
    harness,    \* the postgres_test_harness scope the calls are made in
    txn,        \* per concurrent caller: where its set_data call stands
    query       \* the last Provider.get_all_assets call and what it returned

vars == <<backend, db, base, tables, data, call, prev, now, harness, txn, query>>

(***************************************************************************)
(* Bounds of the model.                                                    *)
(***************************************************************************)
MaxKey == 2     \* key values (timestamp, id) of batch rows are 1..MaxKey
MaxBatch == 2   \* rows per batch
MaxRows == 2    \* rows a table may hold before further growing calls are cut off
MaxSeq == 3     \* last value the id sequence of provider_asset_order may hand out
MaxClock == 3   \* last value of the engine's clock
MaxAssetRows == 3   \* rows provider_asset may hold

\* SQL NULL / pandas NaN: the value of a column that was never supplied
\* (a nullable column of the schema)
NULL == -1

(***************************************************************************)
(* Schema registry: mc_postgres_db/models.py                               *)
(***************************************************************************)
TableNames ==
    { "asset_type", "asset", "provider_type", "provider", "provider_asset",
      "provider_asset_order", "provider_asset_market", "content_type",
      "provider_content", "sentiment_type", "provider_content_sentiment",
      "asset_content" }

\* the columns declared primary_key=True
primary_key(t) ==
    CASE t = "provider_asset" -> {"date", "provider_id", "asset_id"}
      [] t = "provider_asset_market" ->
            {"timestamp", "provider_id", "from_asset_id", "to_asset_id"}
      [] t = "provider_content_sentiment" -> {"provider_content_id", "sentiment_type_id"}
      [] t = "asset_content" -> {"content_id", "asset_id"}
      [] OTHER -> {"id"}

\* the declared columns that are not part of the primary key
DataColumns(t) ==
    CASE t \in {"asset_type", "provider_type", "content_type", "sentiment_type"} ->
            {"name", "description", "is_active", "created_at", "updated_at"}
      [] t = "asset" ->
            {"asset_type_id", "name", "description", "symbol", "underlying_asset_id",
             "is_active", "created_at", "updated_at"}
      [] t = "provider" ->
            {"provider_type_id", "name", "description", "provider_external_code",
             "underlying_provider_id", "url", "image_url", "is_active",
             "created_at", "updated_at"}
      [] t = "provider_asset" -> {"asset_code", "is_active", "created_at", "updated_at"}
      [] t = "provider_asset_order" ->
            {"timestamp", "provider_id", "from_asset_id", "to_asset_id", "price", "volume"}
      [] t = "provider_asset_market" ->
            {"close", "open", "high", "low", "volume", "best_bid", "best_ask"}
      [] t = "provider_content" ->
            {"timestamp", "provider_id", "content_external_code", "content_type_id",
             "authors", "title", "description", "content", "created_at", "updated_at"}
      [] t = "provider_content_sentiment" ->
            {"sentiment_text", "positive_sentiment_score", "negative_sentiment_score",
             "neutral_sentiment_score", "sentiment_score", "created_at", "updated_at"}
      [] t = "asset_content" -> {"created_at"}
      [] OTHER -> {}

Columns(t) == primary_key(t) \cup DataColumns(t)

\* the columns declared nullable=True
Nullable(t) ==
    Columns(t) \cap
    CASE t \in {"asset_type", "provider_type", "content_type", "sentiment_type"} ->
            {"description"}
      [] t = "asset" -> {"description", "symbol", "underlying_asset_id"}
      [] t = "provider" ->
            {"description", "provider_external_code", "underlying_provider_id",
             "url", "image_url"}
      [] t = "provider_asset_order" -> {"price", "volume"}
      [] t = "provider_asset_market" ->
            {"close", "open", "high", "low", "volume", "best_bid", "best_ask"}
      [] t = "provider_content" -> {"authors", "title", "description"}
      [] t = "provider_content_sentiment" ->
            {"sentiment_text", "positive_sentiment_score", "negative_sentiment_score",
             "neutral_sentiment_score", "sentiment_score"}
      [] OTHER -> {}

\* the columns declared with server_default=func.now()
ServerDefault(t) == Columns(t) \cap {"created_at", "updated_at"}

\* the columns the engine itself refreshes when a row is updated: none.
\* server_onupdate=func.now() tells the ORM to expect a value the server generates
\* on UPDATE; create_all emits no trigger or clause for it
ServerOnUpdate(t) == {}

\* a single integer primary-key column is a serial column of the engine
AutoIncrement(t) == IF primary_key(t) = {"id"} THEN {"id"} ELSE {}

\* ForeignKey("<parent>.id") declarations: <<column, parent table>>
ForeignKeys(t) ==
    CASE t = "asset" -> {<<"asset_type_id", "asset_type">>, <<"underlying_asset_id", "asset">>}
      [] t = "provider" ->
            {<<"provider_type_id", "provider_type">>, <<"underlying_provider_id", "provider">>}
      [] t = "provider_asset" -> {<<"provider_id", "provider">>, <<"asset_id", "asset">>}
      [] t \in {"provider_asset_order", "provider_asset_market"} ->
            {<<"provider_id", "provider">>, <<"from_asset_id", "asset">>,
             <<"to_asset_id", "asset">>}
      [] t = "provider_content" ->
            {<<"provider_id", "provider">>, <<"content_type_id", "content_type">>}
      [] t = "provider_content_sentiment" ->
            {<<"provider_content_id", "provider_content">>,
             <<"sentiment_type_id", "sentiment_type">>}
      [] t = "asset_content" -> {<<"content_id", "provider_content">>, <<"asset_id", "asset">>}
      [] OTHER -> {}

ForeignKeyColumns(t) == {fk[1] : fk \in ForeignKeys(t)}

\* the tables some other table references
Referenced == {p \in TableNames : \E c \in TableNames \ {p} : \E fk \in ForeignKeys(c) : fk[2] = p}

\* a convention that would prefix the table name instead
naming_convention_Prefixed(t) == "PK_" \o t

\* MetaData(naming_convention={"pk": "%(table_name)s_pkey"})
naming_convention(t) == t \o "_pkey"


(***************************************************************************)
(* Batches: the pandas DataFrames handed to set_data.  A DataFrame has one  *)
(* column set for all its rows.                                             *)
(***************************************************************************)
DataVals == {10}

\* columns that provider_asset_market (as its key) and provider_asset_order share
EventColumns == {"timestamp", "provider_id", "from_asset_id", "to_asset_id"}

\* the market payloads of tests/test_postgres_harness.py: complete, and without close
MarketShapes == { EventColumns \cup {"close", "high"}, EventColumns \cup {"high"} }

\* the order payload of the tests, and one that carries its own id
OrderShapes == { EventColumns \cup {"price"}, EventColumns \cup {"id", "price"} }

\* provider 1 and assets 1 and 2 are the rows create_base_data stores
RowOf(cols, k, v) ==
    [c \in cols |->
        CASE c \in {"timestamp", "id", "date"} -> k
          [] c \in {"provider_id", "from_asset_id", "asset_id", "is_active"} -> 1
          [] c = "to_asset_id" -> 2
          [] c = "close" -> v + 5
          [] OTHER -> v]

\* Column.type.python_type, by column name
python_type(c) ==
    CASE c \in {"created_at", "updated_at", "timestamp"} -> "datetime"
      [] c = "date" -> "date"
      [] c = "is_active" -> "bool"
      [] c \in {"name", "description", "symbol", "provider_external_code", "url",
                "image_url", "asset_code", "content_external_code", "authors",
                "title", "content", "sentiment_text"} -> "str"
      [] c \in {"price", "volume", "close", "open", "high", "low", "best_bid",
                "best_ask", "positive_sentiment_score", "negative_sentiment_score",
                "neutral_sentiment_score", "sentiment_score"} -> "float"
      [] OTHER -> "int"

\* pd.Series(dtype=python_type).dtype; the dtype of the two date types stays abstract
Series_dtype(py) ==
    CASE py = "int" -> "int64"
      [] py = "float" -> "float64"
      [] py = "str" -> "object"
      [] OTHER -> py

\* a DataFrame: index holds the names of its index levels ({} for the default
\* RangeIndex), cols its ordinary columns; a row maps index levels and columns
DataFrame(index, cols, dtype, rows) ==
    [isdf |-> TRUE, index |-> index, cols |-> cols, dtype |-> dtype, rows |-> rows]

\* pd.DataFrame(list of dicts): default index, every key a column
Frame(cols, rows) ==
    DataFrame({}, cols, [c \in cols |-> Series_dtype(python_type(c))], rows)

\* a value that is not a pandas DataFrame (a list of dicts, say)
NotADataFrame == [isdf |-> FALSE, index |-> {}, cols |-> {}, dtype |-> <<>>, rows |-> <<>>]

\* the batch with keys ks: its i-th row carries the values v + i - 1
BatchOf(cols, ks, v) == Frame(cols, [i \in 1..Len(ks) |-> RowOf(cols, ks[i], v + i - 1)])

Frames(shapes) ==
    { BatchOf(s, ks, v) :
        s \in shapes, ks \in UNION {[1..n -> 1..MaxKey] : n \in 0..MaxBatch}, v \in DataVals }

\* an emptiness test that would look at the columns only
empty_NoColumns(df) == df.cols = {}

\* DataFrame.empty: no rows or no columns
empty(df) == df.cols = {} \/ Len(df.rows) = 0

(***************************************************************************)
(* The engine (PostgreSQL).  Of the schema's tables the model keeps the     *)
(* rows of the two event tables the batches are written to; the tables      *)
(* they reference hold the rows of create_base_data, or nothing.            *)
(***************************************************************************)
Targets == {"provider_asset_market", "provider_asset_order"}

NoConstraint == ""

\* Base.metadata.create_all: the table as the schema declares it, empty, with its
\* primary-key constraint named by the naming convention and its id sequence at 1
CreatedTable(t) ==
    [cols |-> Columns(t), pk |-> naming_convention(t), rows |-> <<>>, nextid |-> 1]

\* a table that still is the one create_all made (to_sql's replace makes one with
\* the batch's columns and no constraint, default or sequence)
Declared(T) == T.pk # NoConstraint

KeyOf(t, row) == [c \in primary_key(t) |-> row[c]]

\* the rows of a table, as a set
RowsOfTable(T) == {T.rows[i] : i \in 1..Len(T.rows)}

Keys(t, rows) == {KeyOf(t, rows[i]) : i \in 1..Len(rows)}

\* the row the engine stores for batch row r: a supplied column takes r's value, an
\* omitted serial column the sequence's next value, an omitted column with a
\* server default the clock's value, any other omitted column NULL
StoredRow(T, t, df, r, id) ==
    [c \in T.cols |->
        IF c \in df.cols THEN r[c]
        ELSE IF Declared(T) /\ c \in AutoIncrement(t) THEN id
        ELSE IF Declared(T) /\ c \in ServerDefault(t) THEN now
        ELSE NULL]

\* new rows that would all draw the same id from the sequence
NewRows_OneId(T, t, df) ==
    [i \in 1..Len(df.rows) |-> StoredRow(T, t, df, df.rows[i], T.nextid)]

\* whether a statement inserting data draws ids from the table's sequence
UsesSequence(T, t, df) == Declared(T) /\ AutoIncrement(t) \ df.cols # {}

NewRows(T, t, df) ==
    [i \in 1..Len(df.rows) |-> StoredRow(T, t, df, df.rows[i], T.nextid + i - 1)]

\* INSERT names only columns the table has
ColumnsExist(T, df) == df.cols \subseteq T.cols

\* NOT NULL columns without a default must be supplied
NotNullSupplied(T, t, df) ==
    Declared(T) =>
        (Columns(t) \ Nullable(t)) \subseteq
            (df.cols \cup ServerDefault(t) \cup AutoIncrement(t))

\* the referenced provider and asset rows must be stored
ForeignKeysHold(T, t, df) ==
    Declared(T) /\ ForeignKeyColumns(t) \cap df.cols # {} => base

\* no two rows of the table may share a primary key
PrimaryKeyHolds(T, t, rows) ==
    Declared(T) => \A i, j \in 1..Len(rows) : KeyOf(t, rows[i]) = KeyOf(t, rows[j]) => i = j

\* DROP TABLE is refused while a declared table still references this one
DropAllowed(t) ==
    \A c \in TableNames \ {t} : (\E fk \in ForeignKeys(c) : fk[2] = t) => ~Declared(db[c])

\* data.to_sql(table_name, engine, if_exists='replace', index=False):
\* drop the table, create one from the DataFrame's columns, insert the rows
to_sql_replace(t, df) ==
    IF DropAllowed(t)
    THEN [ok |-> TRUE,
          tbl |-> [cols |-> df.cols, pk |-> NoConstraint, rows |-> df.rows, nextid |-> 1]]
    ELSE [ok |-> FALSE, tbl |-> db[t]]

\* an append that would pass if_exists='replace'
to_sql_append_Replacing(t, df) == to_sql_replace(t, df)

\* data.to_sql(table_name, engine, if_exists='append', index=False):
\* one INSERT of all rows; the statement is atomic
to_sql_append(t, df) ==
    LET T == db[t]
        rows == T.rows \o NewRows(T, t, df)
    IN  IF /\ ColumnsExist(T, df)
           /\ NotNullSupplied(T, t, df)
           /\ ForeignKeysHold(T, t, df)
           /\ PrimaryKeyHolds(T, t, rows)
        THEN [ok |-> TRUE,
              tbl |-> [T EXCEPT !.rows = rows,
                                !.nextid = IF UsesSequence(T, t, df)
                                           THEN @ + Len(df.rows) ELSE @]]
        ELSE [ok |-> FALSE, tbl |-> T]

\* constraint=f"PK_{table.table.name}"
upsert_constraint(t) == "PK_" \o t

\* set_={c.key: c for c in insert_statement.excluded}: table.table is the table
\* pandas built from the DataFrame, so excluded holds the DataFrame's columns only
upsert_set(df) == df.cols

\* ON CONFLICT ... DO UPDATE for one row: the stored row with the same key takes
\* the set_ columns from the incoming row and keeps the others
Updated(old, r, df) == [c \in DOMAIN old |-> IF c \in upsert_set(df) THEN r[c] ELSE old[c]]

RECURSIVE UpsertRows(_, _, _, _, _)
\* rows: the table so far; i: the next batch row; touched: the keys this statement
\* has inserted or updated (a second touch of one row is an engine error)
UpsertRows(T, t, df, i, acc) ==
    IF ~acc.ok \/ i > Len(df.rows) THEN acc
    ELSE LET new == StoredRow(T, t, df, df.rows[i], T.nextid + i - 1)
             k == KeyOf(t, new)
             hit == {j \in 1..Len(acc.rows) : KeyOf(t, acc.rows[j]) = k}
         IN  IF k \in acc.touched
             THEN [acc EXCEPT !.ok = FALSE]
             ELSE UpsertRows(T, t, df, i + 1,
                    [ok |-> TRUE,
                     touched |-> acc.touched \cup {k},
                     rows |-> IF hit = {}
                              THEN Append(acc.rows, new)
                              ELSE [j \in 1..Len(acc.rows) |->
                                      IF j \in hit
                                      THEN Updated(acc.rows[j], df.rows[i], df)
                                      ELSE acc.rows[j]]])

\* __postgres_upsert: INSERT ... ON CONFLICT ON CONSTRAINT "PK_<table>" DO UPDATE
\* SET <the DataFrame's columns>; the engine rejects the statement when the table
\* has no constraint of that name
postgres_upsert(t, df) ==
    LET T == db[t]
        res == UpsertRows(T, t, df, 1, [ok |-> TRUE, touched |-> {}, rows |-> T.rows])
    IN  IF /\ ColumnsExist(T, df)
           /\ T.pk = upsert_constraint(t)
           /\ NotNullSupplied(T, t, df)
           /\ ForeignKeysHold(T, t, df)
           /\ res.ok
        THEN [ok |-> TRUE,
              tbl |-> [T EXCEPT !.rows = res.rows,
                                !.nextid = IF UsesSequence(T, t, df)
                                           THEN @ + Len(df.rows) ELSE @]]
        ELSE [ok |-> FALSE, tbl |-> T]


(***************************************************************************)
(* The write path: mcpdb/utils.py                                          *)
(***************************************************************************)
OperationTypes == {"insert", "append", "upsert"}

\* the record of a call; again tells that it repeats the call before it (set_data
\* on the same table with the same operation type and, the caller having built no
\* DataFrame in between, the same batch)
Call(api, t, op, result, stmt) ==
    [api |-> api, table |-> t, op |-> op, result |-> result, stmt |-> stmt,
     again |-> api = "set_data" /\ call.api = "set_data" /\ call.table = t /\ call.op = op]

NoCall(api) == Call(api, "", "", "ok", "none")

\* the checks in another order: the table name before the operation type
set_data_check_TableFirst(t, df, op) ==
    IF t \notin TableNames THEN "UnknownTable"
    ELSE IF op \notin OperationTypes THEN "InvalidOperation"
    ELSE IF ~df.isdf THEN "NotDataFrame"
    ELSE "ok"

\* the three checks of __set_data, in the code's order; each raises ValueError
set_data_check(t, df, op) ==
    IF op \notin OperationTypes THEN "InvalidOperation"
    ELSE IF t \notin TableNames THEN "UnknownTable"
    ELSE IF ~df.isdf THEN "NotDataFrame"
    ELSE "ok"

\* the statement __set_data sends for an operation type
set_data_statement(op) ==
    CASE op = "insert" -> "replace"
      [] op = "append" -> "append"
      [] op = "upsert" -> "upsert"

set_data_execute(t, df, op) ==
    CASE op = "insert" -> to_sql_replace(t, df)
      [] op = "append" -> to_sql_append(t, df)
      [] op = "upsert" -> postgres_upsert(t, df)

\* a rejected INSERT that had begun drawing ids may leave the sequence advanced
SequenceAfterError(t, df, op, adv) ==
    IF /\ op \in {"append", "upsert"}
       /\ UsesSequence(db[t], t, df)
       /\ ColumnsExist(db[t], df)
       /\ op = "upsert" => db[t].pk = upsert_constraint(t)
    THEN adv \in 0..Len(df.rows)
    ELSE adv = 0

\* __set_data(engine, table_name, data, operation_type)
set_data(t, op, adv) ==
    /\ backend = "engine"
    /\ prev' = db
    /\ UNCHANGED <<query, txn, harness, now, backend, base, tables, data>>
    /\ LET check == set_data_check(t, data, op)
       IN  IF check # "ok"
           THEN /\ adv = 0
                /\ call' = Call("set_data", t, op, check, "none")
                /\ UNCHANGED db
           ELSE IF empty(data)
           THEN /\ adv = 0
                /\ call' = Call("set_data", t, op, "ok", "none")
                /\ UNCHANGED db
           ELSE LET out == set_data_execute(t, data, op)
                IN  /\ Len(out.tbl.rows) <= MaxRows
                    /\ IF out.ok
                       THEN /\ adv = 0
                            /\ out.tbl.nextid <= MaxSeq + 1
                            /\ db' = [db EXCEPT ![t] = out.tbl]
                            /\ call' = Call("set_data", t, op, "ok", set_data_statement(op))
                       ELSE /\ SequenceAfterError(t, data, op, adv)
                            /\ db[t].nextid + adv <= MaxSeq + 1
                            /\ db' = [db EXCEPT ![t].nextid = @ + adv]
                            /\ call' = Call("set_data", t, op, "EngineError",
                                            set_data_statement(op))

\* no get_all_assets call yet
NoQuery == [provider |-> 0, asset_ids |-> {}, result |-> {}]

\* two callers (threads, flow runs) that share the engine
Callers == {"a", "b"}

\* a caller that is not inside set_data
Idle == [pc |-> "idle", df |-> NotADataFrame, result |-> "none"]

\* the keys of a caller's statement that has executed in a transaction still open:
\* the engine holds these rows locked until the transaction ends
LockedBy(c, t) ==
    IF txn[c].pc = "executed" /\ txn[c].result = "ok" THEN Keys(t, txn[c].df.rows) ELSE {}

\* caller c calls set_data(engine, t, df, "upsert") with a DataFrame that has rows:
\* the checks pass and to_sql opens its transaction
upsert_begin(c, t, df) ==
    /\ backend = "engine"
    /\ txn[c].pc \in {"idle", "done"}
    /\ set_data_check(t, df, "upsert") = "ok"
    /\ ~empty(df)
    /\ txn' = [txn EXCEPT ![c] = [pc |-> "running", df |-> df, result |-> "none"]]
    /\ call' = NoCall("upsert_begin")
    /\ prev' = db
    /\ UNCHANGED <<query, harness, now, backend, db, base, tables, data>>

\* the engine executes c's statement (__postgres_upsert) in c's transaction: at
\* once when it is rejected, else once no other open transaction holds a row of
\* its keys
upsert_execute(c, t) ==
    /\ backend = "engine"
    /\ txn[c].pc = "running"
    /\ LET out == postgres_upsert(t, txn[c].df)
       IN  /\ out.ok => \A o \in Callers \ {c} :
                            LockedBy(o, t) \cap Keys(t, txn[c].df.rows) = {}
           /\ out.ok => Len(out.tbl.rows) <= MaxRows
           /\ txn' = [txn EXCEPT ![c].pc = "executed",
                                 ![c].result = IF out.ok THEN "ok" ELSE "EngineError"]
    /\ call' = NoCall("upsert_execute")
    /\ prev' = db
    /\ UNCHANGED <<query, harness, now, backend, db, base, tables, data>>

\* to_sql leaves its transaction: commit after a statement that went through, which
\* makes its rows visible, rollback after one that was rejected; set_data returns
\* or raises
upsert_end(c, t) ==
    /\ backend = "engine"
    /\ txn[c].pc = "executed"
    /\ db' = IF txn[c].result = "ok"
             THEN [db EXCEPT ![t] = postgres_upsert(t, txn[c].df).tbl]
             ELSE db
    /\ txn' = [txn EXCEPT ![c].pc = "done"]
    /\ call' = Call("set_data", t, "upsert", txn[c].result, "upsert")
    /\ prev' = db
    /\ UNCHANGED <<query, harness, now, backend, base, tables, data>>

\* the caller builds the DataFrame of its next calls
pd_DataFrame(df) ==
    /\ data' = df
    /\ call' = NoCall("DataFrame")
    /\ prev' = IF backend = "engine" THEN db ELSE tables
    /\ UNCHANGED <<query, txn, harness, now, backend, db, base, tables>>

(***************************************************************************)
(* The Mock Store: mcpdb/testing/mocks.py.  A stored table is a DataFrame   *)
(* whose rows carry their index label beside their column values.           *)
(***************************************************************************)
NaN == NULL

\* the index label of a DataFrame's i-th row: its index levels when it was built
\* with set_index, else its position
Label(df, i) ==
    IF df.index = {} THEN [c \in {"#"} |-> i - 1] ELSE [c \in df.index |-> df.rows[i][c]]

\* the DataFrame as MockDatabase.tables holds it
Stored(df) ==
    [index |-> df.index, cols |-> df.cols, dtype |-> df.dtype,
     rows |-> [i \in 1..Len(df.rows) |->
                 [label |-> Label(df, i), vals |-> [c \in df.cols |-> df.rows[i][c]]]]]

Labels(f) == [i \in 1..Len(f.rows) |-> f.rows[i].label]

find_common_type(a, b) ==
    IF a = b THEN a
    ELSE IF {a, b} = {"int64", "float64"} THEN "float64"
    ELSE "object"

\* the dtype a column takes once it must hold NaN
with_missing(d) ==
    CASE d = "int64" -> "float64"
      [] d = "bool" -> "object"
      [] OTHER -> d

\* pd.concat([a, b]): b's rows after a's, over the union of the columns; a column
\* one side lacks is NaN in that side's rows; a side without rows does not weigh
\* on the dtype of a column the other side fills
pd_concat(a, b) ==
    LET cols == a.cols \cup b.cols
        fill(f, r) ==
            [label |-> r.label,
             vals |-> [c \in cols |-> IF c \in f.cols THEN r.vals[c] ELSE NaN]]
        holds(f, c) == c \in f.cols /\ Len(f.rows) > 0
        lacks(f, c) == c \notin f.cols /\ Len(f.rows) > 0
        common(c) ==
            IF holds(a, c) /\ holds(b, c) THEN find_common_type(a.dtype[c], b.dtype[c])
            ELSE IF holds(a, c) THEN a.dtype[c]
            ELSE IF holds(b, c) THEN b.dtype[c]
            ELSE IF c \in a.cols /\ c \in b.cols
                 THEN find_common_type(a.dtype[c], b.dtype[c])
            ELSE IF c \in a.cols THEN a.dtype[c]
            ELSE b.dtype[c]
    IN  [index |-> IF a.index = b.index THEN a.index ELSE {},
         cols |-> cols,
         dtype |-> [c \in cols |->
                      IF lacks(a, c) \/ lacks(b, c) THEN with_missing(common(c))
                      ELSE common(c)],
         rows |-> [i \in 1..Len(a.rows) |-> fill(a, a.rows[i])]
                  \o [i \in 1..Len(b.rows) |-> fill(b, b.rows[i])]]

\* the order of the index levels, as the models declare their key columns
LevelOrder ==
    <<"#", "id", "date", "timestamp", "provider_content_id", "sentiment_type_id",
      "content_id", "provider_id", "from_asset_id", "to_asset_id", "asset_id">>

RECURSIVE LabelBefore(_, _, _)
\* sorted group keys: positions before key tuples, tuples level by level
LabelBefore(x, y, n) ==
    IF n > Len(LevelOrder) THEN FALSE
    ELSE LET c == LevelOrder[n]
         IN  IF c \in DOMAIN x /\ c \notin DOMAIN y THEN TRUE
             ELSE IF c \notin DOMAIN x /\ c \in DOMAIN y THEN FALSE
             ELSE IF c \notin DOMAIN x \/ x[c] = y[c] THEN LabelBefore(x, y, n + 1)
             ELSE x[c] < y[c]

SortedLabels(S) ==
    CHOOSE q \in [1..Cardinality(S) -> S] :
        \A i, j \in 1..Cardinality(S) : i < j => LabelBefore(q[i], q[j], 1)

\* f.groupby(by, as_index=False).last(): by is a sequence of labels, one per row of
\* f, else pandas raises; one row per distinct label, in label order, each column
\* holding the group's last value that is not NaN; the labels themselves are
\* dropped and the result carries the default index
groupby_last(f, by) ==
    IF Len(by) # Len(f.rows) THEN [ok |-> FALSE, df |-> <<>>]
    ELSE LET groups == SortedLabels({by[i] : i \in 1..Len(by)})
             last(k, c) ==
                 LET at == {i \in 1..Len(by) : by[i] = k /\ f.rows[i].vals[c] # NaN}
                 IN  IF at = {} THEN NaN
                     ELSE f.rows[CHOOSE i \in at : \A j \in at : j <= i].vals[c]
         IN  [ok |-> TRUE,
              df |-> [index |-> {}, cols |-> f.cols, dtype |-> f.dtype,
                      rows |-> [g \in 1..Len(groups) |->
                                  [label |-> [c \in {"#"} |-> g - 1],
                                   vals |-> [c \in f.cols |-> last(groups[g], c)]]]]]

\* MockDatabase.reset_database's table: no rows, the key columns as index
EmptyTable(t) ==
    [index |-> primary_key(t), cols |-> DataColumns(t),
     dtype |-> [c \in DataColumns(t) |-> Series_dtype(python_type(c))], rows |-> <<>>]

\* checks that would read data.columns before looking the table up
mock_check_ColumnsFirst(t, df) ==
    IF ~df.isdf THEN "AttributeError"
    ELSE IF t \notin DOMAIN tables THEN "UnknownTable"
    ELSE IF ~(df.cols \subseteq tables[t].cols) THEN "SchemaMismatch"
    ELSE IF \E c \in df.cols : df.dtype[c] # tables[t].dtype[c] THEN "TypeMismatch"
    ELSE "ok"

\* the checks MockDatabase.set_data and set_table share, in the code's order
mock_check(t, df) ==
    IF t \notin DOMAIN tables THEN "UnknownTable"
    ELSE IF ~df.isdf THEN "AttributeError"
    ELSE IF ~(df.cols \subseteq tables[t].cols) THEN "SchemaMismatch"
    ELSE IF \E c \in df.cols : df.dtype[c] # tables[t].dtype[c] THEN "TypeMismatch"
    ELSE "ok"

\* append_table checks the table and the columns only
append_table_check(t, df) ==
    IF t \notin DOMAIN tables THEN "UnknownTable"
    ELSE IF ~df.isdf THEN "AttributeError"
    ELSE IF ~(df.cols \subseteq tables[t].cols) THEN "SchemaMismatch"
    ELSE "ok"

\* the assignment of MockDatabase.set_data for an operation type; an operation
\* type the method does not name falls through all three branches
mock_execute(t, df, op) ==
    LET both == pd_concat(tables[t], Stored(df))
    IN  IF op \in {"insert", "upsert"} THEN groupby_last(both, Labels(tables[t]))
        ELSE IF op = "append" THEN [ok |-> TRUE, df |-> both]
        ELSE [ok |-> TRUE, df |-> tables[t]]

\* a set_data that would assign its result to every table of the store
mock_set_data_Everywhere(t, df, op) ==
    LET check == mock_check(t, df)
    IN  IF check # "ok" THEN [result |-> check, tables |-> tables]
        ELSE LET out == mock_execute(t, df, op)
             IN  IF out.ok
                 THEN [result |-> "ok", tables |-> [x \in DOMAIN tables |-> out.df]]
                 ELSE [result |-> "PandasError", tables |-> tables]

\* a set_data that would check the types only after it has stored the batch
mock_set_data_TypesLast(t, df, op) ==
    LET check == mock_check(t, df)
    IN  IF check = "TypeMismatch"
        THEN [result |-> check,
              tables |-> [tables EXCEPT ![t] = pd_concat(tables[t], Stored(df))]]
        ELSE IF check # "ok" THEN [result |-> check, tables |-> tables]
        ELSE LET out == mock_execute(t, df, op)
             IN  IF out.ok
                 THEN [result |-> "ok", tables |-> [tables EXCEPT ![t] = out.df]]
                 ELSE [result |-> "PandasError", tables |-> tables]

\* how MockDatabase.set_data ends and the tables it leaves: a check that fails, or
\* pandas raising inside the assignment's right-hand side, leaves them as they were
mock_set_data(t, df, op) ==
    LET check == mock_check(t, df)
    IN  IF check # "ok" THEN [result |-> check, tables |-> tables]
        ELSE LET out == mock_execute(t, df, op)
             IN  IF out.ok
                 THEN [result |-> "ok", tables |-> [tables EXCEPT ![t] = out.df]]
                 ELSE [result |-> "PandasError", tables |-> tables]

\* MockDatabase.set_data(table_name, data, operation_type)
MockDatabase_set_data(t, op) ==
    /\ backend = "mock"
    /\ prev' = tables
    /\ UNCHANGED <<query, txn, harness, now, backend, db, base, data>>
    /\ LET out == mock_set_data(t, data, op)
       IN  /\ t \in DOMAIN tables => Len(out.tables[t].rows) <= MaxRows
           /\ tables' = out.tables
           /\ call' = Call("set_data", t, op, out.result, "none")

\* MockDatabase.set_table(table_name, data)
set_table(t) ==
    /\ backend = "mock"
    /\ prev' = tables
    /\ UNCHANGED <<query, txn, harness, now, backend, db, base, data>>
    /\ LET check == mock_check(t, data)
       IN  /\ call' = Call("set_table", t, "", check, "none")
           /\ IF check = "ok"
              THEN /\ Len(data.rows) <= MaxRows
                   /\ tables' = [tables EXCEPT ![t] = Stored(data)]
              ELSE UNCHANGED tables

\* MockDatabase.append_table(table_name, data)
append_table(t) ==
    /\ backend = "mock"
    /\ prev' = tables
    /\ UNCHANGED <<query, txn, harness, now, backend, db, base, data>>
    /\ LET check == append_table_check(t, data)
       IN  /\ call' = Call("append_table", t, "", check, "none")
           /\ IF check = "ok"
              THEN LET both == pd_concat(tables[t], Stored(data))
                   IN  /\ Len(both.rows) <= MaxRows
                       /\ tables' = [tables EXCEPT ![t] = both]
              ELSE UNCHANGED tables

\* MockDatabase.get_table(table_name)
get_table(t) ==
    /\ backend = "mock"
    /\ prev' = tables
    /\ call' = Call("get_table", t, "", IF t \in DOMAIN tables THEN "ok" ELSE "UnknownTable",
                    "none")
    /\ UNCHANGED <<query, txn, harness, now, backend, db, base, tables, data>>

\* the Python types pandas_dtype takes for a dtype; numpy maps any other class to
\* object, which pandas refuses ("dtype not understood")
Understood == {"int", "float", "str", "bool"}

\* how the dict comprehension of reset_database can end: pd.Series(dtype=python_type)
\* raises TypeError for a column whose Python type pandas does not understand; the
\* store the other operations are modelled on is one whose construction went through
reset_outcomes ==
    {"ok"} \cup
    IF \E t \in TableNames : \E c \in Columns(t) : python_type(c) \notin Understood
    THEN {"TypeError"} ELSE {}

\* MockDatabase.reset_database(): self.tables is assigned once every table is built
reset_database ==
    /\ backend = "mock"
    /\ \E r \in reset_outcomes :
          /\ tables' = IF r = "ok" THEN [t \in TableNames |-> EmptyTable(t)] ELSE tables
          /\ call' = Call("reset_database", "", "", r, "none")
    /\ prev' = tables
    /\ UNCHANGED <<query, txn, harness, now, backend, db, base, data>>

(***************************************************************************)
(* Test support: mc_postgres_db/testing/utilities.py, tests/utils.py       *)
(***************************************************************************)
\* a database without tables
NoTables == <<>>

\* a harness that would open the database file of the scope before
NamedTemporaryFile_Reused(old) == old

\* tempfile.NamedTemporaryFile(suffix=".db"): a new file under a name of its own;
\* the database at its path has no tables, whatever the file of an earlier scope
\* (old) still holds
NamedTemporaryFile(old) == NoTables

\* Base.metadata.create_all(engine) on the database D: every table of the schema
\* that D lacks is created (checkfirst), a table D has is left as it is
create_all(D) ==
    [t \in TableNames |-> IF t \in DOMAIN D THEN D[t] ELSE CreatedTable(t)]

\* a drop_all that would drop nothing
drop_all_Nothing(D) == D

\* Base.metadata.drop_all(engine): every table that bears the name of a table of
\* the schema is dropped, the referencing tables before the referenced ones
drop_all(D) == [t \in DOMAIN D \ TableNames |-> D[t]]

\* clear_database(engine): drop_all, then create_all
clear_database ==
    /\ backend = "engine"
    /\ db' = create_all(drop_all(db))
    /\ base' = FALSE
    /\ call' = NoCall("clear_database")
    /\ prev' = db
    /\ UNCHANGED <<query, txn, harness, now, backend, tables, data>>

\* create_base_data(engine): clear_database, then one asset type, the assets, one
\* provider type and one provider through the ORM session
create_base_data ==
    /\ backend = "engine"
    /\ db' = [t \in TableNames |-> CreatedTable(t)]
    /\ base' = TRUE
    /\ call' = NoCall("create_base_data")
    /\ prev' = db'
    /\ UNCHANGED <<query, txn, harness, now, backend, tables, data>>

\* the harness before its scope is entered: no temporary file, nothing to clean up
NotEntered ==
    [scope |-> "outside", file |-> FALSE, tmp |-> "none", prefect |-> FALSE,
     dropped |-> FALSE, raised |-> FALSE]

\* the harness at its yield: the temporary file exists and is open, the tables are
\* created, the prefect harness is up and the secret is saved
Entered ==
    [scope |-> "body", file |-> TRUE, tmp |-> "open", prefect |-> TRUE,
     dropped |-> FALSE, raised |-> FALSE]

\* with postgres_test_harness(): the code before the yield
harness_enter ==
    /\ backend = "engine"
    /\ harness.scope # "body"
    /\ harness' = Entered
    /\ db' = create_all(NamedTemporaryFile(db))
    /\ base' = FALSE
    /\ call' = NoCall("harness_enter")
    /\ prev' = db
    /\ UNCHANGED <<query, txn, now, backend, tables, data>>

\* leaving the scope.  The body completed: the generator resumes after the yield,
\* the prefect harness exits, then drop_all, tmp.close() and os.remove(db_path).
\* The body raised: the exception is thrown in at the yield, the prefect harness
\* exits and the exception leaves the generator, whose last three steps stand
\* outside any finally; the file is then closed and deleted only if and when the
\* interpreter finalizes tmp (deleted tells whether the file is gone)
harness_exit(raised, deleted) ==
    /\ backend = "engine"
    /\ harness.scope = "body"
    /\ ~raised => deleted
    /\ harness' = [scope |-> "exited",
                   file |-> ~deleted,
                   tmp |-> IF deleted THEN "closed" ELSE "open",
                   prefect |-> FALSE,
                   dropped |-> ~raised,
                   raised |-> raised]
    /\ db' = IF deleted THEN NoTables ELSE db
    /\ base' = IF deleted THEN FALSE ELSE base
    /\ call' = NoCall("harness_exit")
    /\ prev' = db
    /\ UNCHANGED <<query, txn, now, backend, tables, data>>

\* an ORM update of a stored provider_asset row: the session loads the row with
\* key k, the caller changes asset_code and commits; the UPDATE sets the changed
\* attribute and what the engine refreshes by itself
Session_update(t, k, v) ==
    /\ backend = "engine"
    /\ Columns(t) \subseteq db[t].cols
    /\ \E i \in 1..Len(db[t].rows) : KeyOf(t, db[t].rows[i]) = k
    /\ db' = [db EXCEPT ![t].rows =
                [i \in 1..Len(@) |->
                    IF KeyOf(t, @[i]) = k
                    THEN [c \in DOMAIN @[i] |->
                            IF c = "asset_code" THEN v
                            ELSE IF c \in ServerOnUpdate(t) THEN now
                            ELSE @[i][c]]
                    ELSE @[i]]]
    /\ call' = Call("session_update", t, "", "ok", "update")
    /\ prev' = db
    /\ UNCHANGED <<query, txn, harness, now, backend, base, tables, data>>

\* session.add(row) and commit for a mapped class: an omitted serial key takes the
\* sequence's next value, an omitted column with a server default the clock's
\* value, an omitted is_active its Python default True, any other omitted column
\* NULL; the engine enforces the primary key and the foreign key to asset
Session_add(t, vals) ==
    LET T == db[t]
        row == [c \in Columns(t) |->
                  IF c \in DOMAIN vals THEN vals[c]
                  ELSE IF c \in AutoIncrement(t) THEN T.nextid
                  ELSE IF c \in ServerDefault(t) THEN now
                  ELSE IF c = "is_active" THEN 1
                  ELSE NULL]
    IN  /\ backend = "engine"
        /\ Declared(T)
        /\ Len(T.rows) < MaxAssetRows
        /\ PrimaryKeyHolds(T, t, Append(T.rows, row))
        /\ "asset_id" \in DOMAIN vals =>
              \E i \in 1..Len(db["asset"].rows) : db["asset"].rows[i]["id"] = vals["asset_id"]
        /\ db' = [db EXCEPT ![t].rows = Append(@, row)]
        /\ call' = Call("session_add", t, "", "ok", "insert")
        /\ prev' = db
        /\ UNCHANGED <<query, txn, harness, now, backend, base, tables, data>>

\* a subquery that would take the latest date over all rows of the provider
latest_dates_subq_AllRows(rows, self_id) ==
    { [provider_id |-> self_id, asset_id |-> a,
       max_date |-> CHOOSE d \in {r["date"] : r \in {x \in rows : x["provider_id"] = self_id
                                                               /\ x["asset_id"] = a}} :
                      \A r \in rows :
                          (r["provider_id"] = self_id /\ r["asset_id"] = a) => r["date"] <= d] :
      a \in {r["asset_id"] : r \in {x \in rows : x["provider_id"] = self_id}} }

\* latest_dates_subq: per asset, the latest date among the provider's active rows
latest_dates_subq(rows, self_id) ==
    LET active == {r \in rows : r["provider_id"] = self_id /\ r["is_active"] = 1}
    IN  { [provider_id |-> self_id, asset_id |-> a,
           max_date |-> CHOOSE d \in {r["date"] : r \in {x \in active : x["asset_id"] = a}} :
                          \A r \in active : r["asset_id"] = a => r["date"] <= d] :
          a \in {r["asset_id"] : r \in active} }

\* the rows Provider.get_all_assets returns for the provider self_id: ProviderAsset
\* joined with Asset and with the subquery, filtered by provider, by both
\* is_active flags and, when asset_ids is not empty, by asset id
get_all_assets_rows(self_id, asset_ids) ==
    LET rows == RowsOfTable(db["provider_asset"])
        assets == RowsOfTable(db["asset"])
        subq == latest_dates_subq(rows, self_id)
    IN  { r \in rows :
            /\ \E s \in assets : s["id"] = r["asset_id"] /\ s["is_active"] = 1
            /\ \E g \in subq : /\ r["provider_id"] = g.provider_id
                                /\ r["asset_id"] = g.asset_id
                                /\ r["date"] = g.max_date
            /\ r["provider_id"] = self_id
            /\ r["is_active"] = 1
            /\ asset_ids # {} => r["asset_id"] \in asset_ids }

\* provider.get_all_assets(engine, asset_ids)
get_all_assets(self_id, asset_ids) ==
    /\ backend = "engine"
    /\ Declared(db["provider_asset"]) /\ Declared(db["asset"])
    /\ query' = [provider |-> self_id, asset_ids |-> asset_ids,
                 result |-> get_all_assets_rows(self_id, asset_ids)]
    /\ call' = NoCall("get_all_assets")
    /\ prev' = db
    /\ UNCHANGED <<txn, harness, now, backend, db, base, tables, data>>

\* time passes on the engine's clock
Tick ==
    /\ backend = "engine"
    /\ now < MaxClock
    /\ now' = now + 1
    /\ call' = NoCall("clock")
    /\ prev' = db
    /\ UNCHANGED <<query, txn, harness, backend, db, base, tables, data>>

(***************************************************************************)
(* Specifications                                                          *)
(***************************************************************************)
InputOperations == OperationTypes \cup {"bogus"}

\* the harness has created the schema; under the mock_database fixture a fresh
\* MockDatabase stands in for the engine
Init ==
    /\ backend \in {"engine", "mock"}
    /\ db = [t \in TableNames |-> CreatedTable(t)]
    /\ base = FALSE
    /\ tables = IF backend = "mock" THEN [t \in TableNames |-> EmptyTable(t)] ELSE <<>>
    /\ data = NotADataFrame
    /\ call = NoCall("init")
    /\ prev = IF backend = "mock" THEN tables ELSE db
    /\ now = 1
    /\ harness = Entered
    /\ txn = [c \in Callers |-> Idle]
    /\ query = NoQuery

\* Spec: market batches (and one order batch, whose price column the market table
\* lacks) written to provider_asset_market, to a table other tables reference and
\* to a name the schema does not have
MarketInputs ==
    Frames(MarketShapes) \cup {BatchOf(EventColumns \cup {"price"}, <<1>>, 10), NotADataFrame}

\* the batches for the mock: keyed by the table's key (set_index) and well typed,
\* complete or without close; one with an integer column, one with a column of
\* another table, one with the key as ordinary columns
MarketKey == primary_key("provider_asset_market")

Keyed(cols, dtype, ks, v) ==
    DataFrame(MarketKey, cols, dtype, BatchOf(cols \cup MarketKey, ks, v).rows)

MockInputs ==
    { Keyed({"close", "high"}, [c \in {"close", "high"} |-> "float64"], ks, v) :
        ks \in UNION {[1..n -> 1..MaxKey] : n \in 0..MaxBatch}, v \in DataVals }
    \cup { Keyed({"high"}, [c \in {"high"} |-> "float64"], <<1>>, 10),
           Keyed({"high"}, [c \in {"high"} |-> "int64"], <<1>>, 10),
           Keyed({"price"}, [c \in {"price"} |-> "float64"], <<1>>, 10),
           BatchOf(MarketKey \cup {"high"}, <<1>>, 10),
           NotADataFrame }

Next ==
    \/ \E df \in MarketInputs : backend = "engine" /\ pd_DataFrame(df)
    \/ \E df \in MockInputs : backend = "mock" /\ pd_DataFrame(df)
    \/ \E t \in {"provider_asset_market", "no_such_table"}, op \in InputOperations :
          MockDatabase_set_data(t, op)
    \/ \E t \in {"provider_asset_market", "no_such_table"} : set_table(t)
    \/ \E t \in {"provider_asset_market", "no_such_table"} : append_table(t)
    \/ \E t \in {"provider_asset_market", "no_such_table"} : get_table(t)
    \/ reset_database
    \/ \E t \in {"provider_asset_market", "asset_type", "no_such_table"},
          op \in InputOperations : set_data(t, op, 0)
    \/ clear_database
    \/ create_base_data

Spec == Init /\ [][Next]_vars

\* SpecOrders: order batches written to provider_asset_order
OrderInputs == Frames(OrderShapes)

NextOrders ==
    \/ \E df \in OrderInputs : backend = "engine" /\ pd_DataFrame(df)
    \/ \E op \in InputOperations, adv \in 0..MaxBatch : set_data("provider_asset_order", op, adv)
    \/ clear_database
    \/ create_base_data

InitOrders == Init /\ backend = "engine"

SpecOrders == InitOrders /\ [][NextOrders]_vars

\* SpecStamps: batches written to provider_asset, a table with created_at and
\* updated_at, ORM updates of its rows, and the clock
AssetKey == primary_key("provider_asset")

StampShapes ==
    { AssetKey \cup {"asset_code", "is_active"},
      AssetKey \cup {"asset_code", "is_active", "created_at", "updated_at"},
      AssetKey \cup {"asset_code"} }

StampInputs == Frames(StampShapes)

NextStamps ==
    \/ \E df \in StampInputs : backend = "engine" /\ pd_DataFrame(df)
    \/ \E op \in InputOperations : set_data("provider_asset", op, 0)
    \/ \E k \in 1..MaxKey : Session_update("provider_asset", RowOf(AssetKey, k, 0), 20)
    \/ Tick
    \/ clear_database
    \/ create_base_data

SpecStamps == InitOrders /\ [][NextStamps]_vars

\* SpecHarness: scopes of postgres_test_harness, entered one after the other,
\* whose bodies write market batches and end normally or by raising
HarnessInputs == Frames({EventColumns \cup {"close", "high"}}) \cup {NotADataFrame}

InBody == harness.scope = "body"

NextHarness ==
    \/ harness_enter
    \/ \E df \in HarnessInputs : InBody /\ backend = "engine" /\ pd_DataFrame(df)
    \/ \E op \in InputOperations : InBody /\ set_data("provider_asset_market", op, 0)
    \/ InBody /\ create_base_data
    \/ \E raised, deleted \in BOOLEAN : harness_exit(raised, deleted)

InitHarness ==
    /\ backend = "engine"
    /\ db = NoTables
    /\ base = FALSE
    /\ tables = <<>>
    /\ data = NotADataFrame
    /\ call = NoCall("init")
    /\ prev = db
    /\ now = 1
    /\ harness = NotEntered
    /\ txn = [c \in Callers |-> Idle]
    /\ query = NoQuery

SpecHarness == InitHarness /\ [][NextHarness]_vars

\* SpecRace: two callers upsert market batches at the same time, on a database
\* that sequential calls have prepared
RaceInputs == {df \in Frames(MarketShapes) : Len(df.rows) = 1}

Quiet == \A c \in Callers : txn[c].pc = "idle"

NextRace ==
    \/ \E df \in RaceInputs : Quiet /\ backend = "engine" /\ pd_DataFrame(df)
    \/ \E op \in {"append", "upsert"} : Quiet /\ set_data("provider_asset_market", op, 0)
    \/ Quiet /\ create_base_data
    \/ \E c \in Callers, df \in RaceInputs : upsert_begin(c, "provider_asset_market", df)
    \/ \E c \in Callers : upsert_execute(c, "provider_asset_market")
    \/ \E c \in Callers : upsert_end(c, "provider_asset_market")

SpecRace == InitOrders /\ [][NextRace]_vars

\* SpecAssets: provider_asset rows added through the session, for two providers
\* and two assets that are active or not, and get_all_assets queries
Ids == 1..2

AssetRow(id, active) ==
    [c \in Columns("asset") |->
        CASE c = "id" -> id
          [] c = "is_active" -> active
          [] c \in {"created_at", "updated_at", "asset_type_id"} -> 1
          [] c = "name" -> 10 + id
          [] OTHER -> NULL]

InitAssets ==
    /\ backend = "engine"
    /\ \E act \in [Ids -> {0, 1}] :
          db = [t \in TableNames |->
                  IF t = "asset"
                  THEN [CreatedTable(t) EXCEPT !.rows = [i \in Ids |-> AssetRow(i, act[i])],
                                               !.nextid = 3]
                  ELSE CreatedTable(t)]
    /\ base = TRUE
    /\ tables = <<>>
    /\ data = NotADataFrame
    /\ call = NoCall("init")
    /\ prev = db
    /\ now = 1
    /\ harness = Entered
    /\ txn = [c \in Callers |-> Idle]
    /\ query = NoQuery

NextAssets ==
    \/ \E d \in 1..MaxKey, p \in Ids, a \in Ids, act \in {0, 1} :
          Session_add("provider_asset",
                      [date |-> d, provider_id |-> p, asset_id |-> a,
                       asset_code |-> 10, is_active |-> act])
    \/ \E p \in Ids, ids \in SUBSET Ids : get_all_assets(p, ids)

SpecAssets == InitAssets /\ [][NextAssets]_vars

(***************************************************************************)
(* Properties                                                              *)
(***************************************************************************)
\* the last call was set_data, on the engine, with operation type op, on a table of
\* the schema and with a DataFrame that has rows and columns
EngineWrite(op) ==
    /\ backend = "engine"
    /\ call.api = "set_data"
    /\ call.op = op
    /\ call.table \in TableNames
    /\ data.isdf
    /\ ~empty(data)

RowsOf(T) == {T.rows[i] : i \in 1..Len(T.rows)}

HasKey(t, df) == primary_key(t) \subseteq df.cols

\* how often the key k occurs among rows
Occurs(t, rows, k) == Cardinality({i \in 1..Len(rows) : KeyOf(t, rows[i]) = k})

\* the batch is one the declared table takes: its columns, its required columns,
\* the rows it references stored
ValidFor(t, df) ==
    /\ Declared(prev[t])
    /\ base
    /\ df.cols \subseteq Columns(t)
    /\ NotNullSupplied(prev[t], t, df)

\* C1: an upsert whose row for an existing key k omits column c leaves c at its
\* stored value, while every column the row carries takes the incoming value.
C1_UpsertKeepsOmittedColumns ==
    (EngineWrite("upsert") /\ ValidFor(call.table, data) /\ HasKey(call.table, data)) =>
        LET t == call.table
        IN  \A i \in 1..Len(data.rows) :
              LET k == KeyOf(t, data.rows[i])
                  before == {r \in RowsOf(prev[t]) : KeyOf(t, r) = k}
              IN  (Occurs(t, data.rows, k) = 1 /\ before # {}) =>
                    \E r \in RowsOf(db[t]) :
                        /\ KeyOf(t, r) = k
                        /\ \A c \in DOMAIN r :
                              r[c] = IF c \in data.cols THEN data.rows[i][c]
                                     ELSE (CHOOSE o \in before : TRUE)[c]

\* C2: an upsert of a row whose key is not stored creates exactly one new row with
\* the supplied values and NULL in the omitted columns, and leaves the rows that
\* were stored as they were.
C2_UpsertCreatesRow ==
    (EngineWrite("upsert") /\ ValidFor(call.table, data) /\ HasKey(call.table, data)) =>
        LET t == call.table
        IN  \A i \in 1..Len(data.rows) :
              LET k == KeyOf(t, data.rows[i])
              IN  (Occurs(t, data.rows, k) = 1 /\ Occurs(t, prev[t].rows, k) = 0) =>
                    /\ Occurs(t, db[t].rows, k) = 1
                    /\ \A r \in RowsOf(db[t]) :
                          KeyOf(t, r) = k =>
                             \A c \in DOMAIN r :
                                r[c] = IF c \in data.cols THEN data.rows[i][c] ELSE NULL
                    /\ \A r \in RowsOf(prev[t]) :
                          KeyOf(t, r) \notin Keys(t, data.rows) => r \in RowsOf(db[t])

\* C3: the constraint an upsert statement names as its conflict target is the
\* primary-key constraint the schema declares for the table.
C3_UpsertNamesDeclaredKey ==
    (backend = "engine" /\ call.api = "set_data" /\ call.stmt = "upsert") =>
        upsert_constraint(call.table) = CreatedTable(call.table).pk

\* C4: the primary-key constraint of every table of the schema, as declared and as
\* long as the engine holds the table as created, is named <table name>_pkey.
C4_PrimaryKeyName ==
    \A t \in TableNames :
        /\ CreatedTable(t).pk = t \o "_pkey"
        /\ Declared(db[t]) => db[t].pk = t \o "_pkey"

\* the schema has just been created anew: every table carries its declared key
C4_Witness ==
    /\ backend = "engine"
    /\ call.api = "clear_database"
    /\ \A t \in TableNames : Declared(db[t])

\* C5 as the spec words it: an append of a non-empty batch that uses only the
\* table's columns raises the row count by the batch's length and leaves the
\* stored rows as they were.
C5_AppendAddsEveryRow ==
    (EngineWrite("append") /\ ValidFor(call.table, data)) =>
        LET t == call.table
        IN  /\ Len(db[t].rows) = Len(prev[t].rows) + Len(data.rows)
            /\ SubSeq(db[t].rows, 1, Len(prev[t].rows)) = prev[t].rows

\* C5, amended: an append stores the whole batch behind the stored rows, or the
\* engine rejects it and the stored rows stay; it stores the batch when the batch is
\* valid for the declared table and its keys are distinct and not yet stored; a
\* declared table never holds one key twice.
C5_AppendAllOrNothing ==
    (EngineWrite("append") /\ call.stmt = "append") =>
        LET t == call.table
            old == prev[t].rows
        IN  /\ call.result = "ok" =>
                 /\ Len(db[t].rows) = Len(old) + Len(data.rows)
                 /\ SubSeq(db[t].rows, 1, Len(old)) = old
                 /\ PrimaryKeyHolds(db[t], t, db[t].rows)
            /\ call.result # "ok" => db[t].rows = old
            /\ ( /\ ValidFor(t, data)
                 /\ HasKey(t, data)
                 /\ \A i \in 1..Len(data.rows) :
                       LET k == KeyOf(t, data.rows[i])
                       IN  Occurs(t, data.rows, k) = 1 /\ Occurs(t, old, k) = 0 )
               => call.result = "ok"

\* an accepted append behind rows that were already stored
C5_Witness ==
    /\ EngineWrite("append")
    /\ call.result = "ok"
    /\ Declared(db[call.table])
    /\ Len(prev[call.table].rows) > 0
    /\ Len(db[call.table].rows) > Len(prev[call.table].rows)

\* the payload's i-th row is the stored row at position n + i, id apart
StoredBehind(t, n) ==
    /\ Len(db[t].rows) = n + Len(data.rows)
    /\ \A i \in 1..Len(data.rows) :
          \A c \in data.cols \ {"id"} : db[t].rows[n + i][c] = data.rows[i][c]

DistinctIds(rows) ==
    \A i, j \in 1..Len(rows) : rows[i]["id"] = rows[j]["id"] => i = j

\* C6 as the spec words it: every append on provider_asset_order, a repeated
\* payload included, stores each payload row as a row of its own, the ids pairwise
\* distinct, the other columns equal to the payload's.
C6_AppendStoresEveryPayload ==
    (EngineWrite("append") /\ call.table = "provider_asset_order"
        /\ ValidFor(call.table, data)) =>
        /\ call.result = "ok"
        /\ StoredBehind(call.table, Len(prev[call.table].rows))
        /\ DistinctIds(db[call.table].rows)

\* C6, amended: it holds of the appends whose payload leaves id to the table's
\* sequence, the stored ids being ones the sequence has passed; whatever the
\* payloads, the declared table never holds one id twice, and an append the engine
\* rejects stores no row.
C6_AppendDrawsFreshIds ==
    LET t == "provider_asset_order"
    IN  /\ Declared(db[t]) => DistinctIds(db[t].rows)
        /\ (EngineWrite("append") /\ call.table = t /\ call.result # "ok")
              => db[t].rows = prev[t].rows
        /\ ( /\ EngineWrite("append")
             /\ call.table = t
             /\ ValidFor(t, data)
             /\ "id" \notin data.cols
             /\ \A r \in RowsOf(prev[t]) : r["id"] < prev[t].nextid )
           => /\ call.result = "ok"
              /\ StoredBehind(t, Len(prev[t].rows))
              /\ SubSeq(db[t].rows, 1, Len(prev[t].rows)) = prev[t].rows

\* the payload stored a second time, under a new id
C6_Witness ==
    LET t == "provider_asset_order"
    IN  /\ EngineWrite("append")
        /\ call.table = t
        /\ call.result = "ok"
        /\ "id" \notin data.cols
        /\ \E n \in 1..Len(prev[t].rows) :
              \A c \in data.cols : prev[t].rows[n][c] = data.rows[1][c]

\* C7: insert merges the batch into the table: a stored row whose key the batch
\* lacks stays as it was, and a key that is stored and in the batch ends up holding
\* the incoming row.
C7_InsertMerges ==
    (EngineWrite("insert") /\ ValidFor(call.table, data) /\ HasKey(call.table, data)) =>
        LET t == call.table
        IN  /\ \A r \in RowsOf(prev[t]) :
                  KeyOf(t, r) \notin Keys(t, data.rows) => r \in RowsOf(db[t])
            /\ \A i \in 1..Len(data.rows) :
                  LET k == KeyOf(t, data.rows[i])
                  IN  (Occurs(t, data.rows, k) = 1 /\ Occurs(t, prev[t].rows, k) = 1) =>
                        \E r \in RowsOf(db[t]) :
                            /\ KeyOf(t, r) = k
                            /\ \A c \in data.cols : r[c] = data.rows[i][c]

\* C8: set_data with a batch that has a column the table's schema lacks fails with
\* SchemaMismatch, whatever the mode, and writes nothing.
C8_UnknownColumnRejected ==
    (\E op \in OperationTypes : EngineWrite(op)) /\ ~(data.cols \subseteq Columns(call.table))
        => call.result = "SchemaMismatch" /\ db = prev

\* C9: set_data with an operation type outside insert, append and upsert fails with
\* InvalidOperation, whatever the table name and the batch, and writes nothing.
C9_InvalidOperation ==
    (backend = "engine" /\ call.api = "set_data" /\ call.op \notin OperationTypes) =>
        /\ call.result = "InvalidOperation"
        /\ call.stmt = "none"
        /\ db = prev

\* an unrecognized operation type on a table that holds rows, with a batch that
\* any of the three modes would have sent to the engine
C9_Witness ==
    /\ backend = "engine"
    /\ call.api = "set_data"
    /\ call.op \notin OperationTypes
    /\ call.table = "provider_asset_market"
    /\ data.isdf /\ ~empty(data)
    /\ Len(db[call.table].rows) > 0

\* C10: set_data with a recognized mode and a table name outside the schema fails
\* with UnknownTable, whatever the batch, on the engine and in the Mock Store, and
\* writes nothing.
C10_UnknownTable ==
    (call.api = "set_data" /\ call.op \in OperationTypes /\ call.table \notin TableNames) =>
        /\ call.result = "UnknownTable"
        /\ call.stmt = "none"
        /\ prev = IF backend = "mock" THEN tables ELSE db

\* the Mock Store, holding rows, refuses a well-formed batch for an unknown table
C10_Witness ==
    /\ backend = "mock"
    /\ call.api = "set_data"
    /\ call.op \in OperationTypes
    /\ call.table \notin TableNames
    /\ data.isdf /\ Len(data.rows) > 0
    /\ Len(tables["provider_asset_market"].rows) > 0

\* C11: set_data on a table of the schema, in any of the three modes, with an
\* empty DataFrame returns successfully, sends no statement to the engine and
\* leaves every table as it was.
C11_EmptyBatchNoOp ==
    ( /\ backend = "engine"
      /\ call.api = "set_data"
      /\ call.op \in OperationTypes
      /\ call.table \in TableNames
      /\ data.isdf
      /\ (Len(data.rows) = 0 \/ data.cols = {}) )
    => /\ call.result = "ok"
       /\ call.stmt = "none"
       /\ db = prev

\* an empty batch in insert mode on a table that holds rows
C11_Witness ==
    /\ backend = "engine"
    /\ call.api = "set_data"
    /\ call.op = "insert"
    /\ call.table = "provider_asset_market"
    /\ data.isdf /\ Len(data.rows) = 0
    /\ Len(db[call.table].rows) > 0

ValidationErrors == {"InvalidOperation", "UnknownTable", "SchemaMismatch", "TypeMismatch"}

\* C12: when a set_data call, on the engine or in the Mock Store, ends with a
\* validation error, every table holds what it held before the call.
C12_ValidationWritesNothing ==
    (call.api = "set_data" /\ call.result \in ValidationErrors) =>
        prev = IF backend = "mock" THEN tables ELSE db

\* the Mock Store refuses a mistyped batch of one row for a table that holds rows
C12_Witness ==
    /\ backend = "mock"
    /\ call.api = "set_data"
    /\ call.result = "TypeMismatch"
    /\ Len(data.rows) > 0
    /\ Len(tables[call.table].rows) > 0

\* C13: the Mock Store's set_data refuses what the write path refuses: called with
\* an operation type outside insert, append and upsert, for a table it has and a
\* batch it has nothing against, it fails with InvalidOperation.
C13_MockRefusesUnknownMode ==
    ( /\ backend = "mock"
      /\ call.api = "set_data"
      /\ call.op \notin OperationTypes
      /\ mock_check(call.table, data) = "ok" )
    => /\ set_data_check(call.table, data, call.op) = "InvalidOperation"
       /\ call.result = "InvalidOperation"

\* the dtype the schema declares for a column, as reset_database builds it
DeclaredDtype(c) == Series_dtype(python_type(c))

\* C14: in the Mock Store, set_data on a table of the schema with a batch in which
\* some column of the table has another type than the schema declares for it fails
\* with TypeMismatch whatever the operation type, and leaves the tables as they were.
C14_MistypedBatchRefused ==
    ( /\ backend = "mock"
      /\ call.api = "set_data"
      /\ call.table \in TableNames
      /\ data.isdf
      /\ data.cols \subseteq DataColumns(call.table)
      /\ \E c \in data.cols : data.dtype[c] # DeclaredDtype(c) )
    => /\ call.result = "TypeMismatch"
       /\ tables = prev

\* the last call was MockDatabase.set_data with operation type insert or upsert and
\* a batch keyed by the table's key that passed the method's checks
MockMerge ==
    /\ backend = "mock"
    /\ call.api = "set_data"
    /\ call.op \in {"insert", "upsert"}
    /\ call.table \in TableNames
    /\ call.result \notin {"UnknownTable", "AttributeError", "SchemaMismatch", "TypeMismatch"}
    /\ data.index = primary_key(call.table)

\* C15: in the Mock Store, set_data with operation type insert or upsert goes
\* through and leaves at most one row for a value of the primary key; the row of a
\* key the batch carries is the batch's last row for that key in full, a column
\* that row omits being null whatever the stored row held.
C15_MockMergeReplacesRows ==
    MockMerge =>
        LET T == tables[call.table]
            S == Stored(data)
            of(k) == {i \in 1..Len(S.rows) : S.rows[i].label = k}
            lastOf(k) == S.rows[CHOOSE i \in of(k) : \A j \in of(k) : j <= i]
        IN  /\ call.result = "ok"
            /\ \A i, j \in 1..Len(T.rows) : T.rows[i].label = T.rows[j].label => i = j
            /\ \A n \in 1..Len(S.rows) :
                  \E i \in 1..Len(T.rows) :
                      /\ T.rows[i].label = S.rows[n].label
                      /\ \A c \in T.cols :
                            T.rows[i].vals[c] =
                                IF c \in S.cols THEN lastOf(S.rows[n].label).vals[c] ELSE NaN

\* C16: once reset_database has been called, from whatever state, the Mock Store
\* holds one table for each table of the schema and no other, each without rows,
\* with the schema's columns in their declared types and the primary-key columns
\* as its index.
C16_ResetRebuildsStore ==
    (backend = "mock" /\ call.api = "reset_database") =>
        /\ call.result = "ok"
        /\ DOMAIN tables = TableNames
        /\ \A t \in TableNames :
              /\ tables[t].rows = <<>>
              /\ tables[t].index = primary_key(t)
              /\ tables[t].cols = Columns(t) \ primary_key(t)
              /\ \A c \in tables[t].cols : tables[t].dtype[c] = DeclaredDtype(c)

\* the keys of the batch that the table held when the call began
Touched(t) == Keys(t, data.rows) \cap Keys(t, prev[t].rows)

\* C17: a row of a table with a created_at column keeps the created_at it was
\* created with through every set_data call whose batch carries the row's primary
\* key, a conflicting upsert included.
C17_CreatedAtKept ==
    ( /\ backend = "engine"
      /\ call.api = "set_data"
      /\ call.table \in TableNames
      /\ "created_at" \in Columns(call.table)
      /\ data.isdf
      /\ HasKey(call.table, data) )
    => \A i \in 1..Len(prev[call.table].rows) :
          LET old == prev[call.table].rows[i]
          IN  ( /\ "created_at" \in DOMAIN old
                /\ KeyOf(call.table, old) \in Touched(call.table) )
              => \E j \in 1..Len(db[call.table].rows) :
                    LET new == db[call.table].rows[j]
                    IN  /\ KeyOf(call.table, new) = KeyOf(call.table, old)
                        /\ "created_at" \in DOMAIN new
                        /\ new["created_at"] = old["created_at"]

\* C18: an update of a row of a table with an updated_at column (the table as the
\* schema declares it) that went through, an ORM update or an upsert that met the
\* row, leaves the row with the clock's value in updated_at, whether or not the
\* caller supplied one.
C18_UpdatedAtRefreshed ==
    ( /\ backend = "engine"
      /\ call.result = "ok"
      /\ \/ call.api = "session_update"
         \/ call.api = "set_data" /\ call.op = "upsert" /\ data.isdf /\ ~empty(data)
      /\ "updated_at" \in Columns(call.table)
      /\ Declared(prev[call.table]) )
    => \A j \in 1..Len(db[call.table].rows) :
          LET new == db[call.table].rows[j]
          IN  ( /\ new \notin RowsOf(prev[call.table])
                /\ KeyOf(call.table, new) \in Keys(call.table, prev[call.table].rows) )
              => new["updated_at"] = now

\* C19: no set_data call, whatever its operation type, removes a stored row: every
\* primary key the table held when the call began it still holds when the call
\* has ended.
C19_NoRowRemoved ==
    (backend = "engine" /\ call.api = "set_data" /\ call.table \in TableNames) =>
        \A i \in 1..Len(prev[call.table].rows) :
            LET old == prev[call.table].rows[i]
            IN  primary_key(call.table) \subseteq DOMAIN old =>
                    \E j \in 1..Len(db[call.table].rows) :
                        LET new == db[call.table].rows[j]
                        IN  /\ primary_key(call.table) \subseteq DOMAIN new
                            /\ KeyOf(call.table, new) = KeyOf(call.table, old)

\* C20: whenever the scope of postgres_test_harness has been left, the body having
\* completed or raised, the harness has dropped the tables, closed its temporary
\* file and deleted it.
C20_HarnessCleansUp ==
    harness.scope = "exited" =>
        /\ harness.dropped
        /\ harness.tmp = "closed"
        /\ ~harness.file

\* C21: a scope of postgres_test_harness starts with every table of the schema
\* created and empty, whatever the scopes before it wrote: no row written in one
\* scope is there in a later one.
C21_HarnessStartsEmpty ==
    call.api = "harness_enter" =>
        /\ harness.scope = "body"
        /\ DOMAIN db = TableNames
        /\ \A t \in TableNames : db[t] = CreatedTable(t)
        /\ ~base

\* a scope is entered after one whose body wrote rows and whose exit left them
C21_Witness ==
    /\ call.api = "harness_enter"
    /\ prev # NoTables
    /\ Len(prev["provider_asset_market"].rows) > 0
    /\ db["provider_asset_market"].rows = <<>>

\* C22: once clear_database(engine) has been called, in whatever state the
\* database was, every table of the schema exists as declared and holds no row.
C22_ClearDatabaseEmpties ==
    (backend = "engine" /\ call.api = "clear_database") =>
        /\ DOMAIN db = TableNames
        /\ \A t \in TableNames : Declared(db[t]) /\ db[t].cols = Columns(t) /\ db[t].rows = <<>>

\* clear_database is called on a table that an insert had replaced and that held rows
C22_Witness ==
    /\ backend = "engine"
    /\ call.api = "clear_database"
    /\ ~Declared(prev["provider_asset_market"])
    /\ Len(prev["provider_asset_market"].rows) > 0
    /\ db["provider_asset_market"].rows = <<>>

\* the batch row of caller c with key k agrees with the stored row on every
\* column the batch supplies
Won(c, t, k, row) ==
    \E i \in 1..Len(txn[c].df.rows) :
        /\ KeyOf(t, txn[c].df.rows[i]) = k
        /\ \A col \in txn[c].df.cols : row[col] = txn[c].df.rows[i][col]

\* C23: when two callers have run set_data in upsert mode at the same time on the
\* same table with batches that share a primary key (batches the table takes),
\* both calls have gone through, the table holds exactly one row for that key,
\* and that row carries the supplied columns of one of the two calls, the one
\* committed last.
C23_ConcurrentUpsertsSerialize ==
    LET t == "provider_asset_market"
    IN  ( /\ \A c \in Callers : txn[c].pc = "done"
          /\ base
          /\ Declared(db[t]) )
        => \A k \in Keys(t, txn["a"].df.rows) \cap Keys(t, txn["b"].df.rows) :
              /\ \A c \in Callers : txn[c].result = "ok"
              /\ Cardinality({i \in 1..Len(db[t].rows) : KeyOf(t, db[t].rows[i]) = k}) = 1
              /\ \E i \in 1..Len(db[t].rows) :
                    /\ KeyOf(t, db[t].rows[i]) = k
                    /\ \E c \in Callers : Won(c, t, k, db[t].rows[i])

C25_PrimaryKeyStillEnforced ==
    (backend = "engine" /\ call.api = "set_data" /\ call.result = "ok"
        /\ call.table \in TableNames) =>
        LET t == call.table
            T == db[t]
        IN  /\ T.pk = naming_convention(t)
            /\ primary_key(t) \subseteq T.cols
            /\ \A i, j \in 1..Len(T.rows) :
                  KeyOf(t, T.rows[i]) = KeyOf(t, T.rows[j]) => i = j

\* the store the last call worked on
Store == IF backend = "mock" THEN tables ELSE db

\* C26: a set_data call on a table, whatever its operation type and however it
\* ended, leaves every other table as it was, in the write path and in the Mock
\* Store.
C26_OtherTablesUntouched ==
    call.api = "set_data" =>
        /\ DOMAIN Store = DOMAIN prev
        /\ \A t \in DOMAIN Store \ {call.table} : Store[t] = prev[t]

\* a call that changed its table while the referenced tables held the base rows,
\* or, in the Mock Store, one that added rows to its table
C26_Witness ==
    /\ call.api = "set_data"
    /\ call.result = "ok"
    /\ call.table = "provider_asset_market"
    /\ Store[call.table] # prev[call.table]
    /\ backend = "engine" => base

\* C27: the Mock Store's set_data raises SchemaMismatch only for a batch that names
\* a column outside the table's schema: a batch whose columns are all columns of
\* the schema's table, the primary-key columns carried as ordinary columns
\* included, is not refused for its columns.
C27_MockTakesSchemaColumns ==
    ( /\ backend = "mock"
      /\ call.api = "set_data"
      /\ call.table \in TableNames
      /\ data.isdf
      /\ data.cols \subseteq Columns(call.table) )
    => call.result # "SchemaMismatch"

\* the provider_asset rows a get_all_assets call has to choose from: the
\* provider's active rows for assets that are active and that asset_ids admits
Eligible ==
    { r \in RowsOfTable(db["provider_asset"]) :
        /\ r["provider_id"] = query.provider
        /\ r["is_active"] = 1
        /\ \E s \in RowsOfTable(db["asset"]) : s["id"] = r["asset_id"] /\ s["is_active"] = 1
        /\ query.asset_ids # {} => r["asset_id"] \in query.asset_ids }

\* C28: Provider.get_all_assets returns, for each asset, at most one provider_asset
\* row: the provider's active row with the latest date among its active rows for
\* the asset, and only for an active asset; asset_ids, when not empty, restricts
\* the assets, and when empty restricts nothing.
C28_GetAllAssets ==
    call.api = "get_all_assets" =>
        /\ query.result \subseteq Eligible
        /\ \A r \in query.result : \A e \in Eligible :
              e["asset_id"] = r["asset_id"] => e["date"] <= r["date"]
        /\ \A r1, r2 \in query.result : r1["asset_id"] = r2["asset_id"] => r1 = r2
        /\ \A e \in Eligible : \E r \in query.result : r["asset_id"] = e["asset_id"]

\* a call that returned the earlier, active row of an asset whose latest row is not
\* active, for a provider that has rows of another asset too
C28_Witness ==
    /\ call.api = "get_all_assets"
    /\ query.asset_ids = {}
    /\ \E r \in query.result :
          \E x \in RowsOfTable(db["provider_asset"]) :
              /\ x["provider_id"] = r["provider_id"]
              /\ x["asset_id"] = r["asset_id"]
              /\ x["date"] > r["date"]
              /\ x["is_active"] = 0
    /\ \E y \in RowsOfTable(db["provider_asset"]) :
          y["provider_id"] = query.provider /\ y \notin query.result

\* C29: in the Mock Store, after any sequence of set_data, set_table, append_table
\* and reset_database calls, every column of every table has the type the schema
\* declares for it.
C29_MockColumnsKeepDeclaredTypes ==
    backend = "mock" =>
        \A t \in DOMAIN tables : \A c \in tables[t].cols :
            c \in Columns(t) => tables[t].dtype[c] = DeclaredDtype(c)

\* the values of a stored frame's rows, whatever their order and their labels
RowValues(T) == {T.rows[i].vals : i \in 1..Len(T.rows)}

\* C30: in the Mock Store, set_data with a batch without rows leaves the target
\* table holding the rows it held, as many and with the same values, in every mode,
\* also when the table holds several rows under one primary-key value.
C30_EmptyBatchKeepsRows ==
    ( /\ backend = "mock"
      /\ call.api = "set_data"
      /\ call.table \in DOMAIN prev
      /\ data.isdf
      /\ Len(data.rows) = 0 )
    => /\ Len(tables[call.table].rows) = Len(prev[call.table].rows)
       /\ RowValues(tables[call.table]) = RowValues(prev[call.table])

====
